---- MODULE Spec2Model ----
(***************************************************************************)
(* A model of the synthetic-data generator of the Biostrap device          *)
(* (wearipedia/devices/biostrap/evo_gen.py, create_syn_data) and of the    *)
(* day slicing of the Fitbit Sense device (fitbit_sense.py,                *)
(* Fitbit_sense._filter_synthetic).                                        *)
(*                                                                         *)
(* Representation.                                                         *)
(*  - A date string "YYYY-MM-DD" is the tuple <<Y, M, D>>; a timestamp     *)
(*    string "YYYY-MM-DD HH:MM:SS" is <<Y, M, D, h, m, s>>.  strptime and  *)
(*    strftime are the proleptic Gregorian conversions of the standard     *)
(*    library (a datetime is <<ordinal day, second of the day>>).          *)
(*  - A Python dict is the sequence of its <<key, value>> items in         *)
(*    insertion order; storing under a key it holds replaces the value in  *)
(*    place.                                                               *)
(*  - Real values are fixed-point integers; the unit is stated where the   *)
(*    value is computed.  Sums and comparisons are exact.                  *)
(*  - np.random and random are the process-wide generators: a state that   *)
(*    every draw advances, and an output that is a function of the state.  *)
(*    The outputs of np.random.normal are z-scores that include values far *)
(*    outside every clamp.                                                 *)
(*  - The calendar keeps 24 hours a day and 10-second ticks, 6 a minute;   *)
(*    the number of minutes an hour is the bound MinutesPerHour (60 on the *)
(*    real calendar), so a day has 24 * MinutesPerHour * 6 ticks, and the  *)
(*    period 86400 of the sinusoids is the length of that day.             *)
(***************************************************************************)
EXTENDS Integers, Sequences, FiniteSets, TLC

VARIABLES
    start_date, end_date,          \* the arguments of create_syn_data
    pc,                            \* the position in create_syn_data
    start_date_obj, end_date_obj,  \* the parsed arguments
    np_rng, py_rng,                \* the states of np.random and random
    curr_date_obj, curr_time, time_index, last_minute_bpm,
    bpm, brpm, hrv, spo2,
    it,                            \* the position of the running for-loop
    steps, distance,
    daily_bpm_averages,
    rest_cals, work_cals, active_cals, step_cals, total_cals,
    activities, sleep_session, sleep_detail,
    calls, prev,                   \* invocations so far; the bundle of the first
    f_pc, f_synthetic_start, f_synthetic_end, f_data_type, f_params, f_data, f_result

gen_vars == <<start_date, end_date, pc, start_date_obj, end_date_obj, np_rng, py_rng,
              curr_date_obj, curr_time, time_index, last_minute_bpm,
              bpm, brpm, hrv, spo2, it, steps, distance, daily_bpm_averages,
              rest_cals, work_cals, active_cals, step_cals, total_cals,
              activities, sleep_session, sleep_detail, calls, prev>>

fitbit_vars == <<f_pc, f_synthetic_start, f_synthetic_end, f_data_type, f_params,
                 f_data, f_result>>

vars == <<gen_vars, fitbit_vars>>

(***************************************************************************)
(* Bounds.                                                                 *)
(***************************************************************************)
\* The arguments are drawn from MaxDays consecutive dates from BaseDate on.
MaxDays == 2

\* Minutes in an hour of the model's calendar.
MinutesPerHour == 2

\* The generators start in one of the states 0 .. MaxSeed.
MaxSeed == 1

\* The Fitbit synthetic range spans at most MaxSynDays days.
MaxSynDays == 4

BaseDate == <<2022, 2, 28>>

(***************************************************************************)
(* The calendar: datetime.strptime, datetime.strftime, timedelta.          *)
(***************************************************************************)
IsLeap(y) == y % 4 = 0 /\ (y % 100 # 0 \/ y % 400 = 0)

DaysInMonth(y, m) ==
    IF m = 2 THEN (IF IsLeap(y) THEN 29 ELSE 28)
    ELSE IF m \in {4, 6, 9, 11} THEN 30 ELSE 31

DaysBeforeYear(y) ==
    LET p == y - 1 IN p * 365 + p \div 4 - p \div 100 + p \div 400

RECURSIVE DaysBeforeMonth(_, _)
DaysBeforeMonth(y, m) ==
    IF m = 1 THEN 0 ELSE DaysBeforeMonth(y, m - 1) + DaysInMonth(y, m - 1)

\* datetime.strptime(s, "%Y-%m-%d").toordinal()
ToOrdinal(s) == DaysBeforeYear(s[1]) + DaysBeforeMonth(s[1], s[2]) + s[3]

\* The date of an ordinal day (datetime's _ord2ymd).
FromOrdinal(ord) ==
    LET n0   == ord - 1
        n400 == n0 \div 146097
        r400 == n0 % 146097
        n100 == r400 \div 36524
        r100 == r400 % 36524
        n4   == r100 \div 1461
        r4   == r100 % 1461
        n1   == r4 \div 365
        n    == r4 % 365
        year == n400 * 400 + 1 + n100 * 100 + n4 * 4 + n1
        m0   == (n + 50) \div 32
        p0   == DaysBeforeMonth(year, m0)
        m1   == IF p0 > n THEN m0 - 1 ELSE m0
        p1   == DaysBeforeMonth(year, m1)
    IN  IF n1 = 4 \/ n100 = 4 THEN <<year - 1, 12, 31>>
        ELSE <<year, m1, n - p1 + 1>>

SecondsPerMinute == 60
HoursPerDay == 24
TickSeconds == 10

\* timedelta(days=1), in seconds.
DaySeconds == HoursPerDay * MinutesPerHour * SecondsPerMinute

\* strptime gives midnight of the date.
Strptime(s) == <<ToOrdinal(s), 0>>

\* dt + timedelta(seconds=secs), secs of either sign.
DtAdd(dt, secs) ==
    LET s == dt[2] + secs IN <<dt[1] + s \div DaySeconds, s % DaySeconds>>

DtLess(a, b) == a[1] < b[1] \/ (a[1] = b[1] /\ a[2] < b[2])
DtLeq(a, b) == a = b \/ DtLess(a, b)

\* dt.strftime("%Y-%m-%d %H:%M:%S")
StrftimeFull(dt) ==
    FromOrdinal(dt[1]) \o
    << dt[2] \div (MinutesPerHour * SecondsPerMinute),
       (dt[2] \div SecondsPerMinute) % MinutesPerHour,
       dt[2] % SecondsPerMinute >>

\* dt.strftime("%Y-%m-%d")
StrftimeDate(dt) == FromOrdinal(dt[1])

\* dt.split(" ")[0] and dt.split(" ")[1] of a timestamp string.
DatePart(ts) == SubSeq(ts, 1, 3)
TimePart(ts) == SubSeq(ts, 4, 6)

\* int(dt.split(" ")[1].split(":")[0])
HourOf(ts) == TimePart(ts)[1]

\* The two characters a field of "%H", "%M" or "%S" prints.
TwoDigits(n) == <<(n \div 10) % 10, n % 10>>

\* f"{date_str} {time_str}"
JoinDateTime(date_str, time_str) == date_str \o time_str

\* key.startswith(date_str) for a timestamp string key
StartsWith(ts, date_str) == SubSeq(ts, 1, Len(date_str)) = date_str

(***************************************************************************)
(* Python dicts, as item sequences in insertion order.                     *)
(***************************************************************************)
Keys(d) == {d[i][1] : i \in 1..Len(d)}

HasKey(d, k) == \E i \in 1..Len(d) : d[i][1] = k

Get(d, k) == d[CHOOSE i \in 1..Len(d) : d[i][1] = k][2]

\* d[k] = v
Put(d, k, v) ==
    IF HasKey(d, k)
    THEN [i \in 1..Len(d) |-> IF d[i][1] = k THEN <<k, v>> ELSE d[i]]
    ELSE Append(d, <<k, v>>)

\* The sum of s[lo], ..., s[hi], by halves.
RECURSIVE SumRange(_, _, _)
SumRange(s, lo, hi) ==
    IF lo > hi THEN 0
    ELSE IF lo = hi THEN s[lo]
    ELSE LET mid == (lo + hi) \div 2
         IN  SumRange(s, lo, mid) + SumRange(s, mid + 1, hi)

\* sum(s)
SumSeq(s) == SumRange(s, 1, Len(s))

\* [v for k, v in d.items()]
Values(d) == [i \in 1..Len(d) |-> d[i][2]]

Max(a, b) == IF a >= b THEN a ELSE b
Min(a, b) == IF a <= b THEN a ELSE b

(***************************************************************************)
(* The random sources.                                                     *)
(***************************************************************************)
\* z-scores np.random.normal draws, by state.
NormalTable == <<0, 1, -1, 0, 2, -2, 0, 100, -1, 1, -100, 3, -3>>

\* random.random() in eighths, by state.
UniformTable == <<0, 3, 7, 1, 5, 2, 6, 4, 7, 0, 5>>

NpAdvance(s, n) == (s + n) % Len(NormalTable)
PyAdvance(s, n) == (s + n) % Len(UniformTable)

\* np.random.normal(0, sigma): the draw made n draws after state s, in the
\* unit sigma is given in.
Normal(s, n, sigma) == sigma * NormalTable[NpAdvance(s, n) + 1]

\* random.random(), n draws after state s, in eighths.
PyRandom(s, n) == UniformTable[PyAdvance(s, n) + 1]

\* random.randint(a, b)
Randint(s, n, a, b) == a + (PyRandom(s, n) * (b - a + 1)) \div 8

\* random.choice(seq)
Choice(s, n, seq) == seq[(PyRandom(s, n) * Len(seq)) \div 8 + 1]

\* random.uniform(a, b) = a + (b - a) * random(), a and b in tenths, the
\* result in eightieths.
Uniform(s, n, a, b) == 8 * a + (b - a) * PyRandom(s, n)

(***************************************************************************)
(* The sinusoids.  floor(5 * sin(2 * pi * n / DaySeconds)) for a second n  *)
(* of the day, in exact arithmetic: AsinTable[j] is asin(j / 5) / (2 * pi) *)
(* in 1/100000 of a turn.  (At an exact zero of the sinusoid the floating  *)
(* point sine can be a last bit below zero, and int() then gives one       *)
(* less; no series length, key or clamp depends on it.)                    *)
(***************************************************************************)
AsinTable == <<3205, 6549, 10242, 14758, 25000>>

\* floor(5 * sin) on the rising quarter, n seconds after a zero.
Level(n) ==
    Cardinality({j \in 1..5 : AsinTable[j] * DaySeconds <= n * 100000})

\* ceil(5 * sin) on the rising quarter, n seconds after a zero.
CeilLevel(n) ==
    IF n = 0 THEN 0
    ELSE 1 + Cardinality({j \in 1..5 : AsinTable[j] * DaySeconds < n * 100000})

FloorFiveSin(n) ==
    IF 4 * n <= DaySeconds THEN Level(n)
    ELSE IF 2 * n <= DaySeconds THEN Level(DaySeconds \div 2 - n)
    ELSE IF 4 * n <= 3 * DaySeconds THEN 0 - CeilLevel(n - DaySeconds \div 2)
    ELSE 0 - CeilLevel(DaySeconds - n)

\* int(60 + 5 * math.sin(2 * math.pi * time_index / 86400))
BpmBase(t) == 60 + FloorFiveSin(t % DaySeconds)

\* int(40 + 5 * math.cos(2 * math.pi * time_index / 86400))
HrvBase(t) == 40 + FloorFiveSin((t + DaySeconds \div 4) % DaySeconds)

\* int(98 + 0.1 * math.sin(2 * math.pi * time_index / 86400))
Spo2Base(t) == IF FloorFiveSin(t % DaySeconds) >= 0 THEN 98 ELSE 97

(***************************************************************************)
(* create_syn_data: the arguments, and synthetic_biometrics.               *)
(***************************************************************************)
TZ_OFFSET == -420

Dates == {FromOrdinal(ToOrdinal(BaseDate) + i) : i \in 0..(MaxDays - 1)}

EmptyBundle ==
    [activities |-> <<>>, bpm |-> <<>>, brpm |-> <<>>, hrv |-> <<>>, spo2 |-> <<>>,
     rest_cals |-> <<>>, work_cals |-> <<>>, active_cals |-> <<>>,
     step_cals |-> <<>>, total_cals |-> <<>>, sleep_session |-> <<>>,
     sleep_detail |-> <<>>, steps |-> <<>>, distance |-> <<>>]

\* The locals of a call that has not started.
FreshLocals ==
    /\ start_date_obj = <<0, 0>> /\ end_date_obj = <<0, 0>>
    /\ curr_date_obj = <<0, 0>> /\ curr_time = <<0, 0>>
    /\ time_index = 0 /\ last_minute_bpm = <<>>
    /\ bpm = <<>> /\ brpm = <<>> /\ hrv = <<>> /\ spo2 = <<>>
    /\ it = 0
    /\ steps = <<>> /\ distance = <<>>
    /\ daily_bpm_averages = <<>>
    /\ rest_cals = <<>> /\ work_cals = <<>> /\ active_cals = <<>>
    /\ step_cals = <<>> /\ total_cals = <<>>
    /\ activities = <<>> /\ sleep_session = <<>> /\ sleep_detail = <<>>

GenInit ==
    /\ start_date \in Dates
    /\ end_date \in Dates
    /\ \E seed \in 0..MaxSeed :
          /\ np_rng = NpAdvance(seed, 0)
          /\ py_rng = PyAdvance(seed, 0)
    /\ pc = "start"
    /\ FreshLocals
    /\ calls = 1
    /\ prev = EmptyBundle

\* A clamp that forgets the upper bound.
ClampLowerOnly(lo, hi, x) == Max(lo, x)

\* max(lo, min(hi, x))
Clamp(lo, hi, x) == Max(lo, Min(hi, x))

\* The outer loop with the end date excluded.
DayLoopCondExclusive(curr, end) == DtLess(curr, end)

\* while curr_date_obj <= end_date_obj
DayLoopCond(curr, end) == DtLeq(curr, end)

\* while curr_time < curr_date_obj + timedelta(days=1)
TickLoopCond(t, day) == DtLess(t, DtAdd(day, DaySeconds))

\* last_minute_bpm.append(bpm_val), then pop(0) when it holds more than 6
PushLastMinute(window, v) ==
    LET w == Append(window, v) IN IF Len(w) > 6 THEN Tail(w) ELSE w

\* bpm_val, in tenths.
BpmVal(t, rng) == 10 * BpmBase(t) + Normal(rng, 0, 5)

\* brpm_val, in 1/6000: 12 + (avg_last_minute_bpm - 60) / 10 + noise, clamped
\* to [12, 20]; the window w is in tenths.
BrpmVal(w, rng) ==
    Clamp(12 * 6000, 20 * 6000,
          12 * 6000 + ((60 \div Len(w)) * SumSeq(w) - 60 * 600) + Normal(rng, 1, 6000))

\* hrv_val, in tenths.
HrvVal(t, rng) == 10 * HrvBase(t) + Normal(rng, 2, 10)

\* spo2_val, in hundredths, clamped to [95, 100].
Spo2Val(t, rng) == Clamp(95 * 100, 100 * 100, 100 * Spo2Base(t) + Normal(rng, 3, 5))

gen_rest == <<steps, distance, daily_bpm_averages, rest_cals, work_cals, active_cals,
              step_cals, total_cals, activities, sleep_session, sleep_detail,
              calls, prev>>

\* Lines 36-66: parse the arguments, enter synthetic_biometrics.
ParseDates ==
    /\ pc = "start"
    /\ start_date_obj' = Strptime(start_date)
    /\ end_date_obj' = Strptime(end_date)
    /\ curr_date_obj' = Strptime(start_date)
    /\ time_index' = 0
    /\ last_minute_bpm' = <<>>
    /\ bpm' = <<>> /\ brpm' = <<>> /\ hrv' = <<>> /\ spo2' = <<>>
    /\ pc' = "while_day"
    /\ UNCHANGED <<start_date, end_date, np_rng, py_rng, curr_time, it>>
    /\ UNCHANGED gen_rest
    /\ UNCHANGED fitbit_vars

\* Lines 68-69: the outer loop takes one more day.
BiometricsDay ==
    /\ pc = "while_day"
    /\ DayLoopCond(curr_date_obj, end_date_obj)
    /\ curr_time' = curr_date_obj
    /\ pc' = "while_tick"
    /\ UNCHANGED <<start_date, end_date, start_date_obj, end_date_obj, np_rng, py_rng,
                   curr_date_obj, time_index, last_minute_bpm, bpm, brpm, hrv, spo2, it>>
    /\ UNCHANGED gen_rest
    /\ UNCHANGED fitbit_vars

\* Lines 70-109: one 10-second tick of the inner loop.
BiometricsTick ==
    /\ pc = "while_tick"
    /\ TickLoopCond(curr_time, curr_date_obj)
    /\ LET key     == <<StrftimeFull(curr_time), TZ_OFFSET>>
           bpm_val == BpmVal(time_index, np_rng)
           window  == PushLastMinute(last_minute_bpm, bpm_val)
       IN  /\ bpm' = Put(bpm, key, bpm_val)
           /\ last_minute_bpm' = window
           /\ brpm' = Put(brpm, key, BrpmVal(window, np_rng))
           /\ hrv' = Put(hrv, key, HrvVal(time_index, np_rng))
           /\ spo2' = Put(spo2, key, Spo2Val(time_index, np_rng))
    /\ np_rng' = NpAdvance(np_rng, 4)
    /\ curr_time' = DtAdd(curr_time, TickSeconds)
    /\ time_index' = time_index + 10
    /\ UNCHANGED <<start_date, end_date, pc, start_date_obj, end_date_obj, py_rng,
                   curr_date_obj, it>>
    /\ UNCHANGED gen_rest
    /\ UNCHANGED fitbit_vars

\* Line 111: the day is over.
BiometricsDayEnd ==
    /\ pc = "while_tick"
    /\ ~TickLoopCond(curr_time, curr_date_obj)
    /\ curr_date_obj' = DtAdd(curr_date_obj, DaySeconds)
    /\ pc' = "while_day"
    /\ UNCHANGED <<start_date, end_date, start_date_obj, end_date_obj, np_rng, py_rng,
                   curr_time, time_index, last_minute_bpm, bpm, brpm, hrv, spo2, it>>
    /\ UNCHANGED gen_rest
    /\ UNCHANGED fitbit_vars

\* Lines 113, 116-117: synthetic_biometrics returns; enter
\* synthetic_steps_distance_per_minute.
BiometricsReturn ==
    /\ pc = "while_day"
    /\ ~DayLoopCond(curr_date_obj, end_date_obj)
    /\ steps' = <<>> /\ distance' = <<>>
    /\ it' = 1
    /\ pc' = "steps"
    /\ UNCHANGED <<start_date, end_date, start_date_obj, end_date_obj, np_rng, py_rng,
                   curr_date_obj, curr_time, time_index, last_minute_bpm,
                   bpm, brpm, hrv, spo2>>
    /\ UNCHANGED <<daily_bpm_averages, rest_cals, work_cals, active_cals,
                   step_cals, total_cals, activities, sleep_session, sleep_detail,
                   calls, prev>>
    /\ UNCHANGED fitbit_vars

(***************************************************************************)
(* synthetic_steps_distance_per_minute.                                    *)
(***************************************************************************)
\* dt.endswith("0"): true of every 10-second tick.
IsTenSecondMark(ts) == TwoDigits(ts[6])[2] = 0

\* dt.endswith("00"): the last two characters are those of the seconds.
IsMinuteMark(ts) == TwoDigits(ts[6]) = <<0, 0>>

\* 23 <= curr_hour or curr_hour < 6
IsSleepingHour(h) == 23 <= h \/ h < 6

\* The steps of one minute; bpm_value in tenths.
StepsVal(curr_hour, bpm_value, rng) ==
    IF IsSleepingHour(curr_hour) THEN Choice(rng, 0, <<0, 0, 0, 0, 1, 2>>)
    ELSE IF bpm_value < 60 * 10 THEN Randint(rng, 0, 0, 20)
    ELSE IF bpm_value < 80 * 10 THEN Randint(rng, 0, 20, 40)
    ELSE Randint(rng, 0, 40, 120)

\* steps * random.uniform(0.7, 0.8), in eightieths.
DistanceVal(steps_val, rng) == steps_val * Uniform(rng, 1, 7, 8)

\* Lines 120-143: one item of bpm_dict.
StepsItem ==
    /\ pc = "steps"
    /\ it <= Len(bpm)
    /\ LET dt        == bpm[it][1][1]
           bpm_value == bpm[it][2]
           curr_hour == HourOf(dt)
           steps_val == StepsVal(curr_hour, bpm_value, py_rng)
           out_key   == JoinDateTime(DatePart(dt), TimePart(dt))
       IN  IF IsMinuteMark(dt)
           THEN /\ steps' = Put(steps, out_key, steps_val)
                /\ distance' = Put(distance, out_key, DistanceVal(steps_val, py_rng))
                /\ py_rng' = PyAdvance(py_rng, 2)
           ELSE UNCHANGED <<steps, distance, py_rng>>
    /\ it' = it + 1
    /\ UNCHANGED <<start_date, end_date, pc, start_date_obj, end_date_obj, np_rng,
                   curr_date_obj, curr_time, time_index, last_minute_bpm,
                   bpm, brpm, hrv, spo2>>
    /\ UNCHANGED <<daily_bpm_averages, rest_cals, work_cals, active_cals,
                   step_cals, total_cals, activities, sleep_session, sleep_detail,
                   calls, prev>>
    /\ UNCHANGED fitbit_vars

\* Lines 145, 148-154: the loop is over; enter synthetic_daily_calories.
StepsReturn ==
    /\ pc = "steps"
    /\ it > Len(bpm)
    /\ daily_bpm_averages' = <<>>
    /\ rest_cals' = <<>> /\ work_cals' = <<>> /\ active_cals' = <<>>
    /\ step_cals' = <<>> /\ total_cals' = <<>>
    /\ it' = 1
    /\ pc' = "cal_group"
    /\ UNCHANGED <<start_date, end_date, start_date_obj, end_date_obj, np_rng, py_rng,
                   curr_date_obj, curr_time, time_index, last_minute_bpm,
                   bpm, brpm, hrv, spo2, steps, distance>>
    /\ UNCHANGED <<activities, sleep_session, sleep_detail, calls, prev>>
    /\ UNCHANGED fitbit_vars

(***************************************************************************)
(* synthetic_daily_calories.                                               *)
(***************************************************************************)
cal_unchanged == <<start_date, end_date, start_date_obj, end_date_obj, np_rng,
                   curr_date_obj, curr_time, time_index, last_minute_bpm,
                   bpm, brpm, hrv, spo2, steps, distance,
                   activities, sleep_session, sleep_detail, calls, prev>>

\* daily_bpm_averages.setdefault(date_str, []).append(v)
SetDefaultAppend(d, k, v) ==
    IF HasKey(d, k) THEN Put(d, k, Append(Get(d, k), v)) ELSE Put(d, k, <<v>>)

\* Lines 157-159: one item of bpm_dict joins the list of its date.
CaloriesGroup ==
    /\ pc = "cal_group"
    /\ it <= Len(bpm)
    /\ daily_bpm_averages' =
           SetDefaultAppend(daily_bpm_averages, DatePart(bpm[it][1][1]), bpm[it][2])
    /\ it' = it + 1
    /\ UNCHANGED <<pc, py_rng, rest_cals, work_cals, active_cals, step_cals, total_cals>>
    /\ UNCHANGED cal_unchanged
    /\ UNCHANGED fitbit_vars

CaloriesGroupEnd ==
    /\ pc = "cal_group"
    /\ it > Len(bpm)
    /\ it' = 1
    /\ pc' = "cal_avg"
    /\ UNCHANGED <<py_rng, daily_bpm_averages, rest_cals, work_cals, active_cals,
                   step_cals, total_cals>>
    /\ UNCHANGED cal_unchanged
    /\ UNCHANGED fitbit_vars

\* sum(bpm_vals) / len(bpm_vals), as the fraction <<numerator, denominator>>.
Average(vals) == <<SumSeq(vals), Len(vals)>>

\* Lines 162-164: the list of one date becomes its average.
CaloriesAverage ==
    /\ pc = "cal_avg"
    /\ it <= Len(daily_bpm_averages)
    /\ daily_bpm_averages' =
           Put(daily_bpm_averages, daily_bpm_averages[it][1],
               Average(daily_bpm_averages[it][2]))
    /\ it' = it + 1
    /\ UNCHANGED <<pc, py_rng, rest_cals, work_cals, active_cals, step_cals, total_cals>>
    /\ UNCHANGED cal_unchanged
    /\ UNCHANGED fitbit_vars

CaloriesAverageEnd ==
    /\ pc = "cal_avg"
    /\ it > Len(daily_bpm_averages)
    /\ it' = 1
    /\ pc' = "cal_day"
    /\ UNCHANGED <<py_rng, daily_bpm_averages, rest_cals, work_cals, active_cals,
                   step_cals, total_cals>>
    /\ UNCHANGED cal_unchanged
    /\ UNCHANGED fitbit_vars

\* active_cals of a day, in hundredths; avg_bpm a fraction of tenths.
ActiveCals(avg_bpm, rng) ==
    IF avg_bpm[1] < 60 * 10 * avg_bpm[2] THEN 100 * Randint(rng, 0, 50, 100)
    ELSE IF avg_bpm[1] < 80 * 10 * avg_bpm[2] THEN 100 * Randint(rng, 0, 100, 200)
    ELSE 100 * Randint(rng, 0, 200, 300)

\* sum([val for dt, val in steps_dict.items() if dt.startswith(date_str)])
StepsOfDate(steps_dict, date_str) ==
    SumSeq(Values(SelectSeq(steps_dict, LAMBDA e : StartsWith(e[1], date_str))))

\* steps_val * 0.05, in hundredths.
StepCals(steps_val) == steps_val * 5

\* A total that leaves the step calories out.
TotalCalsWithoutSteps(rest, work, step, active) == rest + work + active

\* rest + work + step + active
TotalCals(rest, work, step, active) == rest + work + step + active

\* Lines 167-188: the calories of one date.
CaloriesDay ==
    /\ pc = "cal_day"
    /\ it <= Len(daily_bpm_averages)
    /\ LET date_str == daily_bpm_averages[it][1]
           avg_bpm  == daily_bpm_averages[it][2]
           active   == ActiveCals(avg_bpm, py_rng)
           rest     == 100 * Randint(py_rng, 1, 1000, 1300)
           work     == 100 * Randint(py_rng, 2, 300, 600)
           step     == StepCals(StepsOfDate(steps, date_str))
       IN  /\ rest_cals' = Put(rest_cals, date_str, rest)
           /\ work_cals' = Put(work_cals, date_str, work)
           /\ step_cals' = Put(step_cals, date_str, step)
           /\ active_cals' = Put(active_cals, date_str, active)
           /\ total_cals' = Put(total_cals, date_str, TotalCals(rest, work, step, active))
    /\ py_rng' = PyAdvance(py_rng, 3)
    /\ it' = it + 1
    /\ UNCHANGED <<pc, daily_bpm_averages>>
    /\ UNCHANGED cal_unchanged
    /\ UNCHANGED fitbit_vars

\* Lines 190-196: synthetic_daily_calories returns.
CaloriesReturn ==
    /\ pc = "cal_day"
    /\ it > Len(daily_bpm_averages)
    /\ pc' = "activity"
    /\ UNCHANGED <<it, py_rng, daily_bpm_averages, rest_cals, work_cals, active_cals,
                   step_cals, total_cals>>
    /\ UNCHANGED cal_unchanged
    /\ UNCHANGED fitbit_vars

(***************************************************************************)
(* synthetic_activity, synthetic_sleep_session, synthetic_sleep_detail.    *)
(***************************************************************************)
\* (start_date_obj + (end_date_obj - start_date_obj) / 2).strftime("%Y-%m-%d")
MiddleDate(s, e) ==
    StrftimeDate(DtAdd(s, (((e[1] - s[1]) * DaySeconds + (e[2] - s[2]))) \div 2))

tail_unchanged == <<start_date, end_date, start_date_obj, end_date_obj, np_rng,
                    curr_date_obj, curr_time, time_index, last_minute_bpm,
                    bpm, brpm, hrv, spo2, it, steps, distance, daily_bpm_averages,
                    rest_cals, work_cals, active_cals, step_cals, total_cals,
                    calls, prev>>

\* Lines 198-214, 258.  duration in minutes, distance in eightieths.
SyntheticActivity ==
    /\ pc = "activity"
    /\ activities' =
           [activity_date   |-> MiddleDate(start_date_obj, end_date_obj),
            type            |-> "Running",
            duration        |-> Randint(py_rng, 0, 20, 60),
            distance        |-> Uniform(py_rng, 1, 30, 100),
            calories_burned |-> Randint(py_rng, 2, 200, 500),
            avg_bpm         |-> Randint(py_rng, 3, 80, 150),
            peak_bpm        |-> Randint(py_rng, 4, 150, 180),
            steps_taken     |-> Randint(py_rng, 5, 3000, 10000),
            intensity       |-> Choice(py_rng, 6, <<"light", "moderate", "high">>)]
    /\ py_rng' = PyAdvance(py_rng, 7)
    /\ pc' = "sleep_session"
    /\ UNCHANGED <<sleep_session, sleep_detail>>
    /\ UNCHANGED tail_unchanged
    /\ UNCHANGED fitbit_vars

\* The nocturnal window with its first hour left out.
IsNightKeyAfter23(k) == 23 < HourOf(k[1]) \/ HourOf(k[1]) < 6

\* 23 <= hour or hour < 6, of a key of bpm_dict
IsNightKey(k) == 23 <= HourOf(k[1]) \/ HourOf(k[1]) < 6

\* v > 65, v in tenths
IsMovement(v) == v > 65 * 10

\* The two dict comprehensions of synthetic_sleep_session.
NightMovements(bpm_dict) ==
    LET night == SelectSeq(bpm_dict, LAMBDA e : IsNightKey(e[1]))
    IN  SelectSeq(night, LAMBDA e : IsMovement(e[2]))

\* Lines 216-227, 261.
SyntheticSleepSession ==
    /\ pc = "sleep_session"
    /\ sleep_session' = NightMovements(bpm)
    /\ pc' = "sleep_detail"
    /\ UNCHANGED <<py_rng, activities, sleep_detail>>
    /\ UNCHANGED tail_unchanged
    /\ UNCHANGED fitbit_vars

\* total_sleep_duration = 8, in eightieths of an hour.
TotalSleepDuration == 8 * 80

\* random.uniform(0.4, 0.6) * total_sleep_duration
LightSleep(rng) == Uniform(rng, 0, 4, 6) * 8

\* random.uniform(0.2, 0.3) * total_sleep_duration
DeepSleep(rng) == Uniform(rng, 1, 2, 3) * 8

\* REM sleep that forgets the deep sleep.
RemSleepWithoutDeep(total, light, deep) == total - light

\* total_sleep_duration - (light_sleep + deep_sleep)
RemSleep(total, light, deep) == total - (light + deep)

\* Lines 229-246, 264.  Hours in eightieths.
SyntheticSleepDetail ==
    /\ pc = "sleep_detail"
    /\ sleep_detail' =
           [sleep_date   |-> MiddleDate(start_date_obj, end_date_obj),
            light_sleep  |-> LightSleep(py_rng),
            deep_sleep   |-> DeepSleep(py_rng),
            rem_sleep    |-> RemSleep(TotalSleepDuration, LightSleep(py_rng),
                                      DeepSleep(py_rng)),
            awake_time   |-> Uniform(py_rng, 2, 1, 3),
            times_awoken |-> Randint(py_rng, 3, 1, 5)]
    /\ py_rng' = PyAdvance(py_rng, 4)
    /\ pc' = "return"
    /\ UNCHANGED <<activities, sleep_session>>
    /\ UNCHANGED tail_unchanged
    /\ UNCHANGED fitbit_vars

\* The tuple create_syn_data returns.
Bundle ==
    [activities |-> activities, bpm |-> bpm, brpm |-> brpm, hrv |-> hrv, spo2 |-> spo2,
     rest_cals |-> rest_cals, work_cals |-> work_cals, active_cals |-> active_cals,
     step_cals |-> step_cals, total_cals |-> total_cals,
     sleep_session |-> sleep_session, sleep_detail |-> sleep_detail,
     steps |-> steps, distance |-> distance]

\* Lines 266-281.
Return ==
    /\ pc = "return"
    /\ pc' = "returned"
    /\ UNCHANGED <<py_rng, activities, sleep_session, sleep_detail>>
    /\ UNCHANGED tail_unchanged
    /\ UNCHANGED fitbit_vars

\* The caller invokes create_syn_data again with the same arguments, in the
\* same process: nothing in create_syn_data seeds np.random or random.
Reinvoke ==
    /\ pc = "returned"
    /\ calls = 1
    /\ prev' = Bundle
    /\ calls' = 2
    /\ pc' = "start"
    /\ start_date_obj' = <<0, 0>> /\ end_date_obj' = <<0, 0>>
    /\ curr_date_obj' = <<0, 0>> /\ curr_time' = <<0, 0>>
    /\ time_index' = 0 /\ last_minute_bpm' = <<>>
    /\ bpm' = <<>> /\ brpm' = <<>> /\ hrv' = <<>> /\ spo2' = <<>>
    /\ it' = 0
    /\ steps' = <<>> /\ distance' = <<>>
    /\ daily_bpm_averages' = <<>>
    /\ rest_cals' = <<>> /\ work_cals' = <<>> /\ active_cals' = <<>>
    /\ step_cals' = <<>> /\ total_cals' = <<>>
    /\ activities' = <<>> /\ sleep_session' = <<>> /\ sleep_detail' = <<>>
    /\ UNCHANGED <<start_date, end_date, np_rng, py_rng>>
    /\ UNCHANGED fitbit_vars

(***************************************************************************)
(* Fitbit_sense._filter_synthetic.                                         *)
(***************************************************************************)
\* The data types of the device, in the order of __init__.
DataTypes ==
    <<"sleep", "steps", "minutesVeryActive", "minutesLightlyActive",
      "minutesFairlyActive", "distance", "minutesSedentary", "heart_rate_day",
      "hrv", "distance_day">>

\* The dates the synthetic range and the requests are drawn from.
SynDates == {FromOrdinal(ToOrdinal(BaseDate) + i) : i \in 0..(MaxSynDays - 1)}

\* The list a daily data type holds after _gen_synthetic: one entry for each
\* day of the synthetic range, in order, here the date of the day.
SyntheticDays(first, last) ==
    [i \in 1..(ToOrdinal(last) - ToOrdinal(first) + 1) |->
        FromOrdinal(ToOrdinal(first) + i - 1)]

\* seq[lo:hi] of a Python list, for indices of either sign.
PySlice(seq, lo, hi) ==
    LET n == Len(seq)
        a == IF lo < 0 THEN Max(lo + n, 0) ELSE Min(lo, n)
        b == IF hi < 0 THEN Max(hi + n, 0) ELSE Min(hi, n)
    IN  SubSeq(seq, a + 1, b)

\* (datetime.strptime(a, date_format) - datetime.strptime(b, date_format)).days
DaysBetween(a, b) == Strptime(a)[1] - Strptime(b)[1]

\* data[0][key][num_days_start : -num_days_end + 1]
Intermediary(list, num_days_start, num_days_end) ==
    PySlice(list, num_days_start, (0 - num_days_end) + 1)

\* The value _filter_synthetic returns, [{key: list}] as <<key, list>>; data
\* is the list data[0] holds under the key of the data type.
FilterSynthetic(data, data_type, synthetic_start, synthetic_end, params) ==
    LET num_days_start == DaysBetween(params.start_date, synthetic_start)
        num_days_end   == DaysBetween(synthetic_end, params.end_date)
        cut            == Intermediary(data, num_days_start, num_days_end)
    IN  IF data_type = "sleep" THEN <<"sleep", cut>>
        ELSE IF data_type = "steps" THEN <<"activities-steps", cut>>
        ELSE IF data_type = "sleep" THEN <<"steps", cut>>
        ELSE IF data_type = "minutesVeryActive"
             THEN <<"activities-minutesVeryActive", cut>>
        ELSE IF data_type = "minutesLightlyActive"
             THEN <<"activities-minutesLightlyActive", cut>>
        ELSE IF data_type = "minutesFairlyActive"
             THEN <<"activities-minutesFairlyActive", cut>>
        ELSE IF data_type = "distance" THEN <<"activities-distance", cut>>
        ELSE IF data_type = "minutesSedentary"
             THEN <<"activities-minutesSedentary", cut>>
        ELSE IF data_type = "hrv" THEN <<"hrv", cut>>
        ELSE <<data_type, data>>

GenIdle ==
    /\ start_date = BaseDate /\ end_date = BaseDate
    /\ np_rng = 0 /\ py_rng = 0
    /\ pc = "off"
    /\ FreshLocals
    /\ calls = 0
    /\ prev = EmptyBundle

\* __init__: the device holds its synthetic range and no data yet.
FitbitInit ==
    /\ f_synthetic_start \in SynDates
    /\ f_synthetic_end \in SynDates
    /\ ToOrdinal(f_synthetic_start) <= ToOrdinal(f_synthetic_end)
    /\ f_pc = "new"
    /\ f_data_type = "" /\ f_params = <<>> /\ f_data = <<>> /\ f_result = <<>>

\* _gen_synthetic: every data type gets its list for the synthetic range.
FitbitGenSynthetic ==
    /\ f_pc = "new"
    /\ f_data' = SyntheticDays(f_synthetic_start, f_synthetic_end)
    /\ f_pc' = "ready"
    /\ UNCHANGED <<f_synthetic_start, f_synthetic_end, f_data_type, f_params, f_result>>
    /\ UNCHANGED gen_vars

\* _filter_synthetic(data, data_type, params)
FitbitFilter ==
    /\ f_pc \in {"ready", "filtered"}
    /\ \E t \in 1..Len(DataTypes), sd \in SynDates, ed \in SynDates :
          /\ ToOrdinal(sd) <= ToOrdinal(ed)
          /\ f_data_type' = DataTypes[t]
          /\ f_params' = [start_date |-> sd, end_date |-> ed]
          /\ f_result' = FilterSynthetic(f_data, DataTypes[t], f_synthetic_start,
                                         f_synthetic_end, f_params')
    /\ f_pc' = "filtered"
    /\ UNCHANGED <<f_synthetic_start, f_synthetic_end, f_data>>
    /\ UNCHANGED gen_vars

FitbitIdle ==
    /\ f_pc = "off"
    /\ f_synthetic_start = <<>> /\ f_synthetic_end = <<>>
    /\ f_data_type = "" /\ f_params = <<>> /\ f_data = <<>> /\ f_result = <<>>

Init == GenInit /\ FitbitIdle

Next ==
    \/ ParseDates
    \/ BiometricsDay
    \/ BiometricsTick
    \/ BiometricsDayEnd
    \/ BiometricsReturn
    \/ StepsItem
    \/ StepsReturn
    \/ CaloriesGroup
    \/ CaloriesGroupEnd
    \/ CaloriesAverage
    \/ CaloriesAverageEnd
    \/ CaloriesDay
    \/ CaloriesReturn
    \/ SyntheticActivity
    \/ SyntheticSleepSession
    \/ SyntheticSleepDetail
    \/ Return

Spec == Init /\ [][Next]_vars

NextTwice == Next \/ Reinvoke

SpecTwice == Init /\ [][NextTwice]_vars

FilterInit == GenIdle /\ FitbitInit

FilterNext == FitbitGenSynthetic \/ FitbitFilter

SpecFilter == FilterInit /\ [][FilterNext]_vars

(***************************************************************************)
(* The properties.                                                         *)
(***************************************************************************)
Returned == pc = "returned"

ValidRange == ToOrdinal(start_date) <= ToOrdinal(end_date)

\* The calendar days of the requested range, and their number.
RangeDates == {FromOrdinal(o) : o \in ToOrdinal(start_date)..ToOrdinal(end_date)}
RangeDays == ToOrdinal(end_date) - ToOrdinal(start_date) + 1

\* Ticks and minutes of one day: 8640 and 1440 with 60 minutes an hour.
TicksPerDay == HoursPerDay * MinutesPerHour * 6
MinutesPerDay == HoursPerDay * MinutesPerHour

\* Every 10-second tick of the range, as a key of the 10-second series.
TickKeys ==
    {<<d \o <<h, m, 10 * t>>, TZ_OFFSET>> :
        d \in RangeDates, h \in 0..23, m \in 0..(MinutesPerHour - 1), t \in 0..5}

\* Every minute of the range, as a plain timestamp.
MinuteStamps ==
    {d \o <<h, m, 0>> : d \in RangeDates, h \in 0..23, m \in 0..(MinutesPerHour - 1)}

FirstKey(d) == d[1][1]
LastKey(d) == d[Len(d)][1]

TenSecondSeriesComplete(d) ==
    /\ Len(d) = TicksPerDay * RangeDays
    /\ Keys(d) = TickKeys
    /\ FirstKey(d) = <<start_date \o <<0, 0, 0>>, TZ_OFFSET>>
    /\ LastKey(d) = <<end_date \o <<23, MinutesPerHour - 1, 50>>, TZ_OFFSET>>

\* C1: for a valid range the returned bpm, hrv and spo2 each hold one entry
\* for every 10-second tick of every day of the range (TicksPerDay entries a
\* day, 8640 on the real calendar), none missing and none twice, from
\* (start_date 00:00:00, -420) to (end_date 23:59:50, -420).
C1_TenSecondSeries ==
    (Returned /\ ValidRange) =>
        /\ TenSecondSeriesComplete(bpm)
        /\ TenSecondSeriesComplete(hrv)
        /\ TenSecondSeriesComplete(spo2)

C1_Witness ==
    /\ Returned
    /\ ToOrdinal(start_date) < ToOrdinal(end_date)
    /\ Len(bpm) = TicksPerDay * RangeDays
    /\ FirstKey(bpm)[1][3] # LastKey(bpm)[1][3]

\* C2: the returned brpm holds one entry a minute, MinutesPerDay entries a
\* day (1440 on the real calendar), each at a tick whose seconds are zero.
C2_BrpmOncePerMinute ==
    (Returned /\ ValidRange) =>
        /\ Len(brpm) = MinutesPerDay * RangeDays
        /\ \A i \in 1..Len(brpm) : brpm[i][1][1][6] = 0

\* C3: a call with end_date before start_date never returns a bundle.
C3_InvalidRangeRejected == Returned => ValidRange

\* C4: every breathing rate is in [12, 20] and every blood oxygen value in
\* [95, 100], whatever the noise (brpm in 1/6000, spo2 in hundredths).
C4_Clamped ==
    /\ \A i \in 1..Len(brpm) : 12 * 6000 <= brpm[i][2] /\ brpm[i][2] <= 20 * 6000
    /\ \A i \in 1..Len(spo2) : 95 * 100 <= spo2[i][2] /\ spo2[i][2] <= 100 * 100

\* Both clamps have acted at both ends, on noise that left the interval.
C4_Witness ==
    /\ Returned
    /\ \E i \in 1..Len(brpm) : brpm[i][2] = 20 * 6000
    /\ \E i \in 1..Len(brpm) : brpm[i][2] = 12 * 6000
    /\ \E i \in 1..Len(spo2) : spo2[i][2] = 100 * 100
    /\ \E i \in 1..Len(spo2) : spo2[i][2] = 95 * 100

DailyAggregateComplete(d) == Len(d) = RangeDays /\ Keys(d) = RangeDates

\* The steps of the minutes of a date, summed.
StepsSumOf(date) ==
    SumSeq(Values(SelectSeq(steps, LAMBDA e : SubSeq(e[1], 1, 3) = date)))

\* C6: for a valid range each of the five daily aggregates has one entry for
\* every date of the range and none else, total_cals is the sum of the other
\* four, and step_cals is 0.05 times the steps of the date (hundredths).
C6_DailyCalories ==
    (Returned /\ ValidRange) =>
        /\ DailyAggregateComplete(rest_cals)
        /\ DailyAggregateComplete(work_cals)
        /\ DailyAggregateComplete(active_cals)
        /\ DailyAggregateComplete(step_cals)
        /\ DailyAggregateComplete(total_cals)
        /\ \A date \in RangeDates :
              /\ Get(total_cals, date) =
                     Get(rest_cals, date) + Get(work_cals, date)
                       + Get(active_cals, date) + Get(step_cals, date)
              /\ Get(step_cals, date) = 5 * StepsSumOf(date)

C6_Witness ==
    /\ Returned
    /\ ToOrdinal(start_date) < ToOrdinal(end_date)
    /\ Len(total_cals) = RangeDays
    /\ \A date \in RangeDates : Get(step_cals, date) > 0

\* C7: for a valid range steps and distance each hold one entry for every
\* minute of the range (MinutesPerDay a day, 1440 on the real calendar) under
\* the plain timestamp of the minute, none for another tick, and they have
\* the same keys.
C7_MinuteSeries ==
    (Returned /\ ValidRange) =>
        /\ Len(steps) = MinutesPerDay * RangeDays
        /\ Len(distance) = MinutesPerDay * RangeDays
        /\ Keys(steps) = MinuteStamps
        /\ Keys(distance) = Keys(steps)

C7_Witness ==
    /\ Returned
    /\ ToOrdinal(start_date) < ToOrdinal(end_date)
    /\ Len(steps) = MinutesPerDay * RangeDays
    /\ Len(bpm) = 6 * Len(steps)

\* C8: the light, deep and REM sleep of the sleep detail record add up to
\* the 8 hours of total_sleep_duration (hours in eightieths).
C8_SleepStagesSum ==
    sleep_detail # <<>> =>
        sleep_detail.light_sleep + sleep_detail.deep_sleep + sleep_detail.rem_sleep
            = 8 * 80

\* The fractions drawn are not the least ones.
C8_Witness ==
    /\ Returned
    /\ ValidRange
    /\ sleep_detail.light_sleep > 4 * 8 * 8
    /\ sleep_detail.deep_sleep > 2 * 8 * 8
    /\ sleep_detail.rem_sleep > 0

Items(d) == {d[i] : i \in 1..Len(d)}

\* C9: the sleep session holds exactly the items of bpm whose hour is 23 or
\* later or before 6 and whose value is above 65 (tenths), each once.
C9_SleepSession ==
    Returned =>
        /\ Items(sleep_session) =
               {e \in Items(bpm) :
                   /\ (e[1][1][4] >= 23 \/ e[1][1][4] < 6)
                   /\ e[2] > 650}
        /\ Cardinality(Items(sleep_session)) = Len(sleep_session)

\* The session keeps a sample of hour 23 and one of the small hours, and
\* drops a night sample that is not above 65 and a day sample that is.
C9_Witness ==
    /\ Returned
    /\ \E e \in Items(sleep_session) : e[1][1][4] = 23
    /\ \E e \in Items(sleep_session) : e[1][1][4] < 6
    /\ \E e \in Items(bpm) : e[1][1][4] < 6 /\ e[2] <= 650
    /\ \E e \in Items(bpm) : e[1][1][4] \in 6..22 /\ e[2] > 650

\* The request lies inside the synthetic range.
RequestInside ==
    /\ ToOrdinal(f_synthetic_start) <= ToOrdinal(f_params.start_date)
    /\ ToOrdinal(f_params.start_date) <= ToOrdinal(f_params.end_date)
    /\ ToOrdinal(f_params.end_date) <= ToOrdinal(f_synthetic_end)

DailyListTypes ==
    {"sleep", "steps", "minutesVeryActive", "minutesLightlyActive",
     "minutesFairlyActive", "distance", "minutesSedentary", "hrv"}

\* C10: for a daily list type and a request inside the synthetic range, the
\* list returned holds the entries of the days start_date .. end_date, in
\* order.
C10_SliceIsRequestedDays ==
    (f_pc = "filtered" /\ f_data_type \in DailyListTypes /\ RequestInside) =>
        f_result[2] = SyntheticDays(f_params.start_date, f_params.end_date)

====
